---- MODULE Spec2Model ----
(***************************************************************************)
(* Model of the transcoding gateway (src/src/routes/ffmpeg.ts) and of the  *)
(* frame extraction pipeline (src/vid.ts, src/src/index.ts).               *)
(*                                                                         *)
(* Strings are sequences of one-character strings, so that the regular     *)
(* expressions of the source are computed character by character.         *)
(***************************************************************************)
EXTENDS Integers, Sequences, FiniteSets, TLC

(***************************************************************************)
(* Bounds of the model.                                                    *)
(***************************************************************************)
MaxArgs == 2
MaxValArgs == 2
MaxFrames == 4

(***************************************************************************)
(* Characters and strings.                                                 *)
(***************************************************************************)
UpperToLower ==
  [c \in {"A","B","C","D","E","F","G","H","I","J","K","L","M","N","O","P","Q",
          "R","S","T","U","V","W","X","Y","Z"} |->
     CASE c = "A" -> "a" [] c = "B" -> "b" [] c = "C" -> "c" [] c = "D" -> "d"
       [] c = "E" -> "e" [] c = "F" -> "f" [] c = "G" -> "g" [] c = "H" -> "h"
       [] c = "I" -> "i" [] c = "J" -> "j" [] c = "K" -> "k" [] c = "L" -> "l"
       [] c = "M" -> "m" [] c = "N" -> "n" [] c = "O" -> "o" [] c = "P" -> "p"
       [] c = "Q" -> "q" [] c = "R" -> "r" [] c = "S" -> "s" [] c = "T" -> "t"
       [] c = "U" -> "u" [] c = "V" -> "v" [] c = "W" -> "w" [] c = "X" -> "x"
       [] c = "Y" -> "y" [] c = "Z" -> "z"]

LowerLetters ==
  {"a","b","c","d","e","f","g","h","i","j","k","l","m","n","o","p","q",
   "r","s","t","u","v","w","x","y","z"}

Digits == {"0","1","2","3","4","5","6","7","8","9"}

\* the canonical form of a character under the regular expression flag i
Fold(c) == IF c \in DOMAIN UpperToLower THEN UpperToLower[c] ELSE c

FoldStr(s) == [i \in 1..Len(s) |-> Fold(s[i])]

\* s contains pat as a contiguous substring
Contains(s, pat) ==
  \E i \in 1..(Len(s) - Len(pat) + 1) : SubSeq(s, i, i + Len(pat) - 1) = pat

ContainsChar(s, c) == \E i \in 1..Len(s) : s[i] = c

(***************************************************************************)
(* validateArgs, ffmpeg.ts:7-16.                                           *)
(***************************************************************************)
\* the grave accent U+0060, which the lexer of TLA+ does not take in a string
Backtick == "U+0060"

\* the character class at the head of DANGEROUS_PATTERN
DangerousChars == {Backtick, "$", "|", ";", "&"}

\* the multi-character alternatives of DANGEROUS_PATTERN
DangerousSeqs ==
  { <<".", ".", "/">>, <<".", ".", "\\">>, <<"f", "i", "l", "e", ":">>,
    <<"/", "d", "e", "v", "/">>, <<"/", "p", "r", "o", "c", "/">>,
    <<"/", "s", "y", "s", "/">>, <<"/", "e", "t", "c", "/">> }

\* the pattern without its flag i
DANGEROUS_PATTERN_CaseSensitive(arg) ==
  \/ \E c \in DangerousChars : ContainsChar(arg, c)
  \/ \E p \in DangerousSeqs : Contains(arg, p)

\* DANGEROUS_PATTERN.test(arg): unanchored, case-insensitive
DANGEROUS_PATTERN(arg) ==
  \/ \E c \in DangerousChars : ContainsChar(arg, c)
  \/ \E p \in DangerousSeqs : Contains(FoldStr(arg), p)

\* index of the first offending token, 0 when there is none
FirstDangerous(args) ==
  IF \E i \in 1..Len(args) : DANGEROUS_PATTERN(args[i])
  THEN CHOOSE i \in 1..Len(args) :
         /\ DANGEROUS_PATTERN(args[i])
         /\ \A j \in 1..(i - 1) : ~DANGEROUS_PATTERN(args[j])
  ELSE 0

\* a validator that stops looking after the first token
validateArgsFirstOnly(args) ==
  IF Len(args) > 0 /\ DANGEROUS_PATTERN(args[1])
  THEN [valid |-> FALSE, reason |-> args[1]]
  ELSE [valid |-> TRUE, reason |-> <<>>]

validateArgs(args) ==
  LET k == FirstDangerous(args)
  IN IF k = 0 THEN [valid |-> TRUE, reason |-> <<>>]
              ELSE [valid |-> FALSE, reason |-> args[k]]

(***************************************************************************)
(* The output format whitelist, ffmpeg.ts:131.                             *)
(***************************************************************************)
IsAlnum(c) == c \in LowerLetters \/ c \in DOMAIN UpperToLower \/ c \in Digits

\* the whitelist without its anchors ^ and $
FormatRegexUnanchored(fmt) == \E i \in 1..Len(fmt) : IsAlnum(fmt[i])

\* /^[a-zA-Z0-9]+$/.test(fmt)
FormatRegex(fmt) == Len(fmt) > 0 /\ \A i \in 1..Len(fmt) : IsAlnum(fmt[i])

\* c.req.query('format') || formData['outputFormat'] || 'mp4', ffmpeg.ts:130:
\* an empty string is falsy and falls through to the next operand
ResolveFormat(q, f) ==
  IF Len(q) > 0 THEN q ELSE IF Len(f) > 0 THEN f ELSE <<"m", "p", "4">>

MAX_OUTPUT_SIZE == 500 * 1024 * 1024

(***************************************************************************)
(* State.                                                                  *)
(***************************************************************************)
VARIABLES
  \* ffmpegHandler, ffmpeg.ts:88-207
  pc,            \* position of the handler
  file,          \* TRUE when formData['file'] is a File
  argsKind,      \* where the option tokens come from, "unset" before
  userArgs,      \* the user's option tokens
  queryFormat,   \* c.req.query('format'), <<>> when absent
  formFormat,    \* formData['outputFormat'], <<>> when absent
  outputFormat,  \* the resolved format, "unset" before line 130
  tmpDir,        \* the local tmpDir, NoDir while it is null
  outputPath,    \* path.join(tmpDir, 'output.<format>'), NoPath before
  statSize,      \* stat.size of the artifact, -1 before fs.stat
  outputRead,    \* TRUE once fs.readFile(outputPath) has returned
  response,      \* the response the handler returns, NoResponse before
  headerName,    \* file name put in Content-Disposition, NoPath if none
  fsDirs,        \* the directories that exist under os.tmpdir()
  mkdtempCount,  \* number of directories fs.mkdtemp has created
  rmIssued,      \* number of fs.rm calls issued by the handler
  rmPending,     \* directories whose removal is in flight
  spawnCount,    \* number of spawn('ffmpeg', ...) calls
  \* executeFfmpeg, ffmpeg.ts:40-86
  settled,       \* the local flag settled
  procState,     \* "none", "running", "spawnfail", "exited"
  hangs,         \* TRUE when the tool never exits by itself
  exitCode,      \* code given to 'close': "0", "1", "-2", or "null" after a signal
  timerArmed,    \* the 120 s timer is pending
  timerFired,    \* the timer callback has run
  closeEmitted,  \* 'close' has been delivered
  errorEmitted,  \* 'error' has been delivered
  signals,       \* the signals proc.kill has been called with, in order
  settleCount,   \* number of resolve/reject invocations
  outcome,       \* how the promise settled, "pending" before
  stderrLen,     \* length of the captured stderr
  errMsgLen,     \* number of stderr characters carried by the rejection
  \* a call of validateArgs on its own, ffmpeg.ts:9-16
  valArgs,       \* the argument args
  valCalled,     \* TRUE once the call has returned
  valVerdict,    \* the value returned
  \* extractFramesEverySecond, vid.ts:6-86 and vid.ts:102-208
  vPc,           \* position of the call
  variant,       \* "fps" for vid.ts:6-86, "save" for vid.ts:102-208
  saveDirectory, \* TRUE when the argument saveDirectory is given
  tempDir,       \* the local tempDir, NoDir before mkdtemp
  toolState,     \* the ffmpeg command: "none", "running", "ended", "errored"
  toolHangs,     \* TRUE when the tool never exits by itself
  nFiles,        \* number of .jpg files the directory listing returned
  framesRead,    \* number of frames whose bytes are in memory
  vThrown,       \* TRUE when an exception is propagating
  vRmIssued,     \* number of fs.rm calls issued by the call
  vRmDone,       \* number of fs.rm calls that have completed
  vReadAtRm,     \* framesRead at the time fs.rm was issued, -1 before
  vResult,       \* "pending", "returned" or "threw"
  \* removal failures and what is logged about them
  rmFailed,      \* TRUE when the fs.rm of the handler has failed
  rmFailLogged,  \* TRUE when the handler has logged that failure
  vRmFailed,     \* TRUE when the fs.rm of extractFramesEverySecond has failed
  vRmFailLogged, \* TRUE when extractFramesEverySecond has logged that failure
  \* extractFramesEverySecond, continued
  fps,           \* the sampling rate: the argument fps, or 1 at vid.ts:126
  dirListing,    \* the entries fs.readdir returned, in the order returned
  sortedFrames,  \* the local sortedFrames
  frames,        \* the local frames: the frames read so far, in order
  vSpawnCount,   \* number of times the ffmpeg command was run
  \* POST /extract-from-url, index.ts:11-83
  rPc,           \* position of the route handler, "none" for a direct call
  routeResponse, \* the response of the route handler, NoResponse before
  \* requests running side by side, one entry per request
  cPc,           \* position of each request
  cKind,         \* "transcode", or the variant of extractFramesEverySecond
  cSave,         \* the argument saveDirectory of each call, NoSave if absent
  cDir,          \* the directory mkdtemp gave each request
  cDirs,         \* the directories that exist
  cFiles,        \* the files that exist, each with the request that wrote it
  cTouched,      \* the directories each request created, wrote or listed
  cListed,       \* the files each request's scan found
  cRemoved,      \* the files each request's removal deleted
  \* the command line of ffmpegHandler, ffmpeg.ts:139-168
  bPc,           \* position: "none", "check", "build", "rejected", "failed", "built"
  bFileName,     \* file.name of the upload
  bUserArgs,     \* the user's option tokens
  bFormat,       \* outputFormat
  bTmpDir,       \* tmpDir as a path, <<>> before mkdtemp
  inputPath,     \* the local inputPath
  bOutputPath,   \* the local outputPath
  filteredArgs,  \* the local filteredArgs
  cliArgs        \* the local cliArgs, <<>> before it is built

hvars == <<pc, file, argsKind, userArgs, queryFormat, formFormat,
           outputFormat, tmpDir, outputPath, statSize, outputRead, response,
           headerName, fsDirs, mkdtempCount, rmIssued, rmPending, spawnCount>>

evars == <<settled, procState, hangs, exitCode, timerArmed, timerFired,
           closeEmitted,
           errorEmitted, signals, settleCount, outcome, stderrLen, errMsgLen>>

valvars == <<valArgs, valCalled, valVerdict>>

fvars == <<vPc, variant, saveDirectory, tempDir, toolState, toolHangs, nFiles,
           framesRead, vThrown, vRmIssued, vRmDone, vReadAtRm, vResult>>

hlog == <<rmFailed, rmFailLogged>>

flog == <<vRmFailed, vRmFailLogged>>

fxvars == <<fps, dirListing, sortedFrames, frames, vSpawnCount>>

rvars == <<rPc, routeResponse>>

avars == <<bPc, bFileName, bUserArgs, bFormat, bTmpDir, inputPath, bOutputPath,
           filteredArgs, cliArgs>>

cvars == <<cPc, cKind, cSave, cDir, cDirs, cFiles, cTouched, cListed, cRemoved>>

vars == <<hvars, evars, valvars, fvars, hlog, flog, fxvars, rvars, cvars, avars>>

NoDir == "null"
NoPath == [dir |-> NoDir, name |-> <<>>]
NoResponse == [status |-> 0, error |-> "none"]

(***************************************************************************)
(* Inputs of a transcode request.                                          *)
(***************************************************************************)
\* option tokens a client may send: two the validator accepts and two it
\* rejects
HandlerTokens ==
  { <<"-", "y">>, <<"-", "a", "n">>,
    <<"a", ";", "b">>, <<"/", "d", "e", "v", "/", "x">> }

\* values of the 'format' query parameter and of the 'outputFormat' field
FormatInputs ==
  { <<>>, <<"m", "p", "4">>, <<"W", "e", "b", "M">>, <<"a", ".", "b">>,
    <<"a", "/", "b">>, <<"a", " ", "b">>, <<"m", "p", "4", "\n">> }

SeqsUpTo(S, n) == UNION { [1..k -> S] : k \in 0..n }

ArgInputs == SeqsUpTo(HandlerTokens, MaxArgs)

\* sizes fs.stat may report for the artifact
StatSizes == {0, MAX_OUTPUT_SIZE - 1, MAX_OUTPUT_SIZE, MAX_OUTPUT_SIZE + 1}

\* lengths of the stderr text the tool may have written
StderrLens == {0, 500, 501}

Min(a, b) == IF a < b THEN a ELSE b

(***************************************************************************)
(* Initial state: a request has arrived, nothing has been read yet.        *)
(***************************************************************************)
ExecInit ==
  /\ settled = FALSE
  /\ procState = "none"
  /\ hangs = FALSE
  /\ exitCode = "none"
  /\ timerArmed = FALSE
  /\ timerFired = FALSE
  /\ closeEmitted = FALSE
  /\ errorEmitted = FALSE
  /\ signals = <<>>
  /\ settleCount = 0
  /\ outcome = "pending"
  /\ stderrLen = 0
  /\ errMsgLen = 0

\* no call of validateArgs on its own
ValIdle ==
  /\ valArgs = <<>>
  /\ valCalled = FALSE
  /\ valVerdict = [valid |-> TRUE, reason |-> <<>>]

\* no call of extractFramesEverySecond
VidIdle ==
  /\ vPc = "idle"
  /\ variant = "fps"
  /\ saveDirectory = FALSE
  /\ tempDir = NoDir
  /\ toolState = "none"
  /\ toolHangs = FALSE
  /\ nFiles = 0
  /\ framesRead = 0
  /\ vThrown = FALSE
  /\ vRmIssued = 0
  /\ vRmDone = 0
  /\ vReadAtRm = -1
  /\ vResult = "pending"
  /\ vRmFailed = FALSE
  /\ vRmFailLogged = FALSE
  /\ fps = 1
  /\ dirListing = <<>>
  /\ sortedFrames = <<>>
  /\ frames = <<>>
  /\ vSpawnCount = 0
  /\ rPc = "none"
  /\ routeResponse = NoResponse

\* the fields of a transcode request of which nothing has been read yet
HandlerFresh ==
  /\ file = FALSE
  /\ argsKind = "unset"
  /\ userArgs = <<>>
  /\ queryFormat = <<>>
  /\ formFormat = <<>>
  /\ outputFormat = <<>>
  /\ tmpDir = NoDir
  /\ outputPath = NoPath
  /\ statSize = -1
  /\ outputRead = FALSE
  /\ response = NoResponse
  /\ headerName = <<>>
  /\ fsDirs = {}
  /\ mkdtempCount = 0
  /\ rmIssued = 0
  /\ rmPending = {}
  /\ spawnCount = 0
  /\ rmFailed = FALSE
  /\ rmFailLogged = FALSE
  /\ ExecInit

\* no command line is being built on its own
ArgvIdle ==
  /\ bPc = "none"
  /\ bFileName = <<>>
  /\ bUserArgs = <<>>
  /\ bFormat = <<>>
  /\ bTmpDir = <<>>
  /\ inputPath = <<>>
  /\ bOutputPath = <<>>
  /\ filteredArgs = <<>>
  /\ cliArgs = <<>>

\* the requests served side by side
Reqs == {1, 2}

\* the argument saveDirectory when none is given
NoSave == <<>>

\* no request is running side by side with another
ConcIdle ==
  /\ cPc = [r \in Reqs |-> "none"]
  /\ cKind = [r \in Reqs |-> "transcode"]
  /\ cSave = [r \in Reqs |-> NoSave]
  /\ cDir = [r \in Reqs |-> <<>>]
  /\ cDirs = {}
  /\ cFiles = {}
  /\ cTouched = [r \in Reqs |-> {}]
  /\ cListed = [r \in Reqs |-> {}]
  /\ cRemoved = [r \in Reqs |-> {}]

Init ==
  /\ pc = "parseBody"
  /\ ConcIdle
  /\ HandlerFresh
  /\ ArgvIdle
  /\ ValIdle
  /\ VidIdle

(***************************************************************************)
(* ffmpegHandler, ffmpeg.ts:88-207.  One action per stretch of code        *)
(* between two awaits; a return or a throw inside try leads to "finally".  *)
(***************************************************************************)
Error400(msg) == [status |-> 400, error |-> msg]

\* the catch block, ffmpeg.ts:195-200
Error500(details) ==
  [status |-> 500, error |-> "FFmpeg processing failed", details |-> details]

\* ffmpeg.ts:94-100
ParseBody ==
  /\ pc = "parseBody"
  /\ \E r \in {"file", "nofile", "throw"} :
       /\ file' = (r = "file")
       /\ CASE r = "file" -> pc' = "parseArgs" /\ UNCHANGED response
            [] r = "nofile" ->
                 /\ response' = Error400("Missing required file field")
                 /\ pc' = "finally"
            [] r = "throw" ->
                 /\ response' = Error500("parseBody")
                 /\ pc' = "finally"
  /\ UNCHANGED <<argsKind, userArgs, queryFormat, formFormat, outputFormat,
                 tmpDir, outputPath, statSize, outputRead, headerName, fsDirs,
                 rmIssued, rmPending, mkdtempCount, spawnCount, evars>>
  /\ UNCHANGED <<valvars, fvars, hlog, flog, fxvars, rvars, cvars, avars>>

\* ffmpeg.ts:105-125
ParseArgs ==
  /\ pc = "parseArgs"
  /\ \E k \in {"none", "query", "form", "badjson", "notarray"} :
       /\ argsKind' = k
       /\ CASE k = "none" ->
                 userArgs' = <<>> /\ pc' = "checkFormat" /\ UNCHANGED response
            [] k \in {"query", "form"} ->
                 /\ \E a \in ArgInputs : userArgs' = a
                 /\ pc' = "checkFormat"
                 /\ UNCHANGED response
            [] k = "notarray" ->
                 /\ response' = Error400("args must be a JSON array of strings")
                 /\ pc' = "finally"
                 /\ UNCHANGED userArgs
            [] k = "badjson" ->
                 /\ response' = Error400("Invalid JSON in args field")
                 /\ pc' = "finally"
                 /\ UNCHANGED userArgs
  /\ UNCHANGED <<file, queryFormat, formFormat, outputFormat, tmpDir,
                 outputPath, statSize, outputRead, headerName, fsDirs,
                 rmIssued, rmPending, mkdtempCount, spawnCount, evars>>
  /\ UNCHANGED <<valvars, fvars, hlog, flog, fxvars, rvars, cvars, avars>>

\* ffmpeg.ts:130-134
CheckFormat ==
  /\ pc = "checkFormat"
  /\ \E q \in FormatInputs, f \in FormatInputs :
       /\ queryFormat' = q
       /\ formFormat' = f
       /\ outputFormat' = ResolveFormat(q, f)
       /\ IF FormatRegex(ResolveFormat(q, f))
          THEN pc' = "validate" /\ UNCHANGED response
          ELSE /\ response' = Error400("Invalid output format")
               /\ pc' = "finally"
  /\ UNCHANGED <<file, argsKind, userArgs, tmpDir, outputPath, statSize,
                 outputRead, headerName, fsDirs, rmIssued, rmPending,
                 mkdtempCount, spawnCount, evars>>
  /\ UNCHANGED <<valvars, fvars, hlog, flog, fxvars, rvars, cvars, avars>>

\* ffmpeg.ts:139-143
Validate ==
  /\ pc = "validate"
  /\ IF validateArgs(userArgs).valid
     THEN pc' = "mkdtemp" /\ UNCHANGED response
     ELSE /\ response' = Error400("Invalid arguments")
          /\ pc' = "finally"
  /\ UNCHANGED <<file, argsKind, userArgs, queryFormat, formFormat,
                 outputFormat, tmpDir, outputPath, statSize, outputRead,
                 headerName, fsDirs, rmIssued, rmPending, mkdtempCount,
                 spawnCount, evars>>
  /\ UNCHANGED <<valvars, fvars, hlog, flog, fxvars, rvars, cvars, avars>>

OutputName(fmt) == <<"o", "u", "t", "p", "u", "t", ".">> \o fmt

TheDir == "ffmpeg-1"

\* ffmpeg.ts:146-153: mkdtemp, then the two paths are built
Mkdtemp ==
  /\ pc = "mkdtemp"
  /\ \/ /\ tmpDir' = TheDir
        /\ fsDirs' = fsDirs \cup {TheDir}
        /\ mkdtempCount' = mkdtempCount + 1
        /\ outputPath' = [dir |-> TheDir, name |-> OutputName(outputFormat)]
        /\ pc' = "writeFile"
        /\ UNCHANGED response
     \/ /\ response' = Error500("mkdtemp")
        /\ pc' = "finally"
        /\ UNCHANGED <<tmpDir, fsDirs, mkdtempCount, outputPath>>
  /\ UNCHANGED <<file, argsKind, userArgs, queryFormat, formFormat,
                 outputFormat, statSize, outputRead, headerName, rmIssued,
                 rmPending, spawnCount, evars>>
  /\ UNCHANGED <<valvars, fvars, hlog, flog, fxvars, rvars, cvars, avars>>

\* ffmpeg.ts:156-157
WriteInput ==
  /\ pc = "writeFile"
  /\ \/ pc' = "spawn" /\ UNCHANGED response
     \/ response' = Error500("writeFile") /\ pc' = "finally"
  /\ UNCHANGED <<file, argsKind, userArgs, queryFormat, formFormat,
                 outputFormat, tmpDir, outputPath, statSize, outputRead,
                 headerName, fsDirs, rmIssued, rmPending, mkdtempCount,
                 spawnCount, evars>>
  /\ UNCHANGED <<valvars, fvars, hlog, flog, fxvars, rvars, cvars, avars>>

(***************************************************************************)
(* executeFfmpeg, ffmpeg.ts:40-86.                                         *)
(***************************************************************************)
\* ffmpeg.ts:42-60 and 161-171: the promise executor runs synchronously:
\* the process is spawned (or fails to) and the timer is started
Spawn ==
  /\ pc = "spawn"
  /\ pc' = "awaitExec"
  /\ spawnCount' = spawnCount + 1
  /\ settled' = FALSE
  /\ timerArmed' = TRUE
  /\ \/ procState' = "running" /\ hangs' \in BOOLEAN
     \/ procState' = "spawnfail" /\ hangs' = FALSE
  /\ UNCHANGED <<file, argsKind, userArgs, queryFormat, formFormat,
                 outputFormat, tmpDir, outputPath, statSize, outputRead,
                 response, headerName, fsDirs, mkdtempCount, rmIssued, rmPending>>
  /\ UNCHANGED <<exitCode, timerFired, closeEmitted, errorEmitted, signals,
                 settleCount, outcome, stderrLen, errMsgLen>>
  /\ UNCHANGED <<valvars, fvars, hlog, flog, fxvars, rvars, cvars, avars>>

\* the codes 'close' reports for a tool that ended without the timer: 0, a
\* nonzero exit status, or null when a signal from outside ended it
ExitCodes == {"0", "1", "null"}

\* the tool ends without having been killed by the timer
ProcExit ==
  /\ procState = "running"
  /\ ~hangs
  /\ procState' = "exited"
  /\ exitCode' \in ExitCodes
  /\ stderrLen' \in StderrLens
  /\ UNCHANGED <<hvars, settled, hangs, timerArmed, timerFired, closeEmitted,
                 errorEmitted, signals, settleCount, outcome, errMsgLen>>
  /\ UNCHANGED <<valvars, fvars, hlog, flog, fxvars, rvars, cvars, avars>>

\* what the operating system does with a signal sent to a running process:
\* SIGKILL cannot be caught; SIGTERM ends only a process that cooperates
SignalEnds(sig, hung) == sig = "SIGKILL" \/ (sig = "SIGTERM" /\ ~hung)

ProcKilled ==
  /\ procState = "running"
  /\ \E i \in 1..Len(signals) : SignalEnds(signals[i], hangs)
  /\ procState' = "exited"
  /\ exitCode' = "null"
  /\ stderrLen' \in StderrLens
  /\ UNCHANGED <<hvars, settled, hangs, timerArmed, timerFired, closeEmitted,
                 errorEmitted, signals, settleCount, outcome, errMsgLen>>
  /\ UNCHANGED <<valvars, fvars, hlog, flog, fxvars, rvars, cvars, avars>>

\* a 'close' listener without its guard
CloseGuardMissing(s) == FALSE

\* an 'error' listener whose guard always returns
ErrorGuardAlways(s) == TRUE

\* the guards "if (settled) return" of the three callbacks
TimerGuard(s) == s
CloseGuard(s) == s
ErrorGuard(s) == s

\* a graceful signal in place of the forceful one
TimerSignalTerm == "SIGTERM"

\* the signal of proc.kill, ffmpeg.ts:58
TimerSignal == "SIGKILL"

\* resolve and reject of a promise: only the first invocation decides
Settle(o) == IF outcome = "pending" THEN o ELSE outcome

\* the setTimeout callback, ffmpeg.ts:54-60.  The 'error' of a failed spawn is
\* emitted from process.nextTick, which runs before any timer
TimerFire ==
  /\ timerArmed
  /\ ~(procState = "spawnfail" /\ ~errorEmitted)
  /\ timerArmed' = FALSE
  /\ timerFired' = TRUE
  /\ IF TimerGuard(settled)
     THEN UNCHANGED <<settled, signals, settleCount, outcome>>
     ELSE /\ settled' = TRUE
          /\ signals' = Append(signals, TimerSignal)
          /\ settleCount' = settleCount + 1
          /\ outcome' = Settle("timeout")
  /\ UNCHANGED <<hvars, procState, hangs, exitCode, closeEmitted, errorEmitted,
                 stderrLen, errMsgLen>>
  /\ UNCHANGED <<valvars, fvars, hlog, flog, fxvars, rvars, cvars, avars>>

\* a listener that forgets clearTimeout(timer)
ClearTimeoutMissing(armed) == armed

\* clearTimeout(timer), ffmpeg.ts:65 and ffmpeg.ts:81: whether the timer is
\* still pending afterwards
ClearTimeout(armed) == FALSE

\* the whole stderr in the message
StderrTailFull(n) == n

\* stderr.slice(-500), ffmpeg.ts:74
StderrTail(n) == Min(n, 500)

\* the 'close' listener, ffmpeg.ts:62-76.  'close' follows the exit of the
\* process; after a failed spawn Node emits 'error' first and then 'close'
\* with a negative code
EmitClose ==
  /\ ~closeEmitted
  /\ \/ procState = "exited"
     \/ procState = "spawnfail" /\ errorEmitted
  /\ closeEmitted' = TRUE
  /\ exitCode' = IF procState = "spawnfail" THEN "-2" ELSE exitCode
  /\ IF CloseGuard(settled)
     THEN UNCHANGED <<settled, timerArmed, settleCount, outcome, errMsgLen>>
     ELSE /\ settled' = TRUE
          /\ timerArmed' = ClearTimeout(timerArmed)
          /\ settleCount' = settleCount + 1
          /\ IF exitCode' = "0"
             THEN outcome' = Settle("resolved") /\ UNCHANGED errMsgLen
             ELSE outcome' = Settle("exit") /\ errMsgLen' = StderrTail(stderrLen)
  /\ UNCHANGED <<hvars, procState, hangs, timerFired, errorEmitted, signals,
                 stderrLen>>
  /\ UNCHANGED <<valvars, fvars, hlog, flog, fxvars, rvars, cvars, avars>>

\* the 'error' listener, ffmpeg.ts:78-84
EmitError ==
  /\ procState = "spawnfail"
  /\ ~errorEmitted
  /\ errorEmitted' = TRUE
  /\ IF ErrorGuard(settled)
     THEN UNCHANGED <<settled, timerArmed, settleCount, outcome>>
     ELSE /\ settled' = TRUE
          /\ timerArmed' = ClearTimeout(timerArmed)
          /\ settleCount' = settleCount + 1
          /\ outcome' = Settle("spawn")
  /\ UNCHANGED <<hvars, procState, hangs, exitCode, timerFired, closeEmitted,
                 signals, stderrLen, errMsgLen>>
  /\ UNCHANGED <<valvars, fvars, hlog, flog, fxvars, rvars, cvars, avars>>

\* a handler that starts the tool a second time after a first failure
AwaitExecRetry ==
  /\ pc = "awaitExec"
  /\ outcome # "pending"
  /\ IF outcome = "resolved"
     THEN pc' = "stat" /\ UNCHANGED response
     ELSE IF spawnCount < 2
          THEN pc' = "spawn" /\ UNCHANGED response
          ELSE response' = Error500(outcome) /\ pc' = "finally"
  /\ UNCHANGED <<file, argsKind, userArgs, queryFormat, formFormat,
                 outputFormat, tmpDir, outputPath, statSize, outputRead,
                 headerName, fsDirs, rmIssued, rmPending, mkdtempCount,
                 spawnCount, evars>>
  /\ UNCHANGED <<valvars, fvars, hlog, flog, fxvars, rvars, cvars, avars>>

\* await executeFfmpeg(cliArgs), ffmpeg.ts:171: the handler resumes once the
\* promise is settled; a rejection is caught at ffmpeg.ts:195
AwaitExec ==
  /\ pc = "awaitExec"
  /\ outcome # "pending"
  /\ IF outcome = "resolved"
     THEN pc' = "stat" /\ UNCHANGED response
     ELSE response' = Error500(outcome) /\ pc' = "finally"
  /\ UNCHANGED <<file, argsKind, userArgs, queryFormat, formFormat,
                 outputFormat, tmpDir, outputPath, statSize, outputRead,
                 headerName, fsDirs, rmIssued, rmPending, mkdtempCount,
                 spawnCount, evars>>
  /\ UNCHANGED <<valvars, fvars, hlog, flog, fxvars, rvars, cvars, avars>>

\* a size check that also refuses the ceiling itself
TooLargeInclusive(size) == size >= MAX_OUTPUT_SIZE

\* stat.size > MAX_OUTPUT_SIZE, ffmpeg.ts:177
TooLarge(size) == size > MAX_OUTPUT_SIZE

\* ffmpeg.ts:174-180
Stat ==
  /\ pc = "stat"
  /\ \/ \E size \in StatSizes :
          /\ statSize' = size
          /\ IF TooLarge(size)
             THEN /\ response' = [status |-> 413,
                                  error |-> "Output file exceeds 500MB limit"]
                  /\ pc' = "finally"
             ELSE pc' = "readFile" /\ UNCHANGED response
     \/ /\ response' = Error500("stat")
        /\ pc' = "finally"
        /\ UNCHANGED statSize
  /\ UNCHANGED <<file, argsKind, userArgs, queryFormat, formFormat,
                 outputFormat, tmpDir, outputPath, outputRead, headerName,
                 fsDirs, rmIssued, rmPending, mkdtempCount, spawnCount, evars>>
  /\ UNCHANGED <<valvars, fvars, hlog, flog, fxvars, rvars, cvars, avars>>

\* ffmpeg.ts:182-194
ReadFile ==
  /\ pc = "readFile"
  /\ \/ /\ outputRead' = TRUE
        /\ response' = [status |-> 200, error |-> "none"]
        /\ headerName' = OutputName(outputFormat)
     \/ /\ response' = Error500("readFile")
        /\ UNCHANGED <<outputRead, headerName>>
  /\ pc' = "finally"
  /\ UNCHANGED <<file, argsKind, userArgs, queryFormat, formFormat,
                 outputFormat, tmpDir, outputPath, statSize, fsDirs, rmIssued,
                 rmPending, mkdtempCount, spawnCount, evars>>
  /\ UNCHANGED <<valvars, fvars, hlog, flog, fxvars, rvars, cvars, avars>>

\* a finally block that removes without looking at tmpDir
FinallyRemovesAlways(d) == TRUE

\* the condition of the finally block, ffmpeg.ts:202
FinallyRemoves(d) == d # NoDir

\* ffmpeg.ts:201-206: the removal is started and not awaited; the handler
\* then returns the response
Finally ==
  /\ pc = "finally"
  /\ pc' = "done"
  /\ IF FinallyRemoves(tmpDir)
     THEN rmIssued' = rmIssued + 1 /\ rmPending' = rmPending \cup {tmpDir}
     ELSE UNCHANGED <<rmIssued, rmPending>>
  /\ UNCHANGED <<file, argsKind, userArgs, queryFormat, formFormat,
                 outputFormat, tmpDir, outputPath, statSize, outputRead,
                 response, headerName, fsDirs, mkdtempCount, spawnCount, evars>>
  /\ UNCHANGED <<valvars, fvars, hlog, flog, fxvars, rvars, cvars, avars>>

\* whether the rejection handler of fs.rm writes a log line: () => {} at
\* ffmpeg.ts:204 does nothing
HandlerCatchLogs == FALSE

\* fs.rm(tmpDir, {recursive, force}) completes: the directory is gone, or
\* the removal failed and .catch(() => {}) swallowed the error
RmComplete ==
  /\ \E d \in rmPending :
       /\ rmPending' = rmPending \ {d}
       /\ \/ fsDirs' = fsDirs \ {d} /\ UNCHANGED hlog
          \/ /\ UNCHANGED fsDirs
             /\ rmFailed' = TRUE
             /\ rmFailLogged' = (rmFailLogged \/ HandlerCatchLogs)
  /\ UNCHANGED <<pc, file, argsKind, userArgs, queryFormat, formFormat,
                 outputFormat, tmpDir, outputPath, statSize, outputRead,
                 response, headerName, rmIssued, mkdtempCount, spawnCount, evars>>
  /\ UNCHANGED <<valvars, fvars, flog, fxvars, rvars, cvars, avars>>

Next ==
  \/ ParseBody
  \/ ParseArgs
  \/ CheckFormat
  \/ Validate
  \/ Mkdtemp
  \/ WriteInput
  \/ Spawn
  \/ ProcExit
  \/ ProcKilled
  \/ TimerFire
  \/ EmitClose
  \/ EmitError
  \/ AwaitExec
  \/ Stat
  \/ ReadFile
  \/ Finally
  \/ RmComplete

Spec == Init /\ [][Next]_vars

(***************************************************************************)
(* Fairness: the event loop runs every callback that is ready (timers,     *)
(* child process events, completed I/O), and the operating system ends a   *)
(* process that was sent a signal it cannot refuse.  Nothing makes the     *)
(* tool exit by itself.                                                    *)
(***************************************************************************)
Fairness ==
  /\ WF_vars(ParseBody)
  /\ WF_vars(ParseArgs)
  /\ WF_vars(CheckFormat)
  /\ WF_vars(Validate)
  /\ WF_vars(Mkdtemp)
  /\ WF_vars(WriteInput)
  /\ WF_vars(Spawn)
  /\ WF_vars(ProcKilled)
  /\ WF_vars(TimerFire)
  /\ WF_vars(EmitClose)
  /\ WF_vars(EmitError)
  /\ WF_vars(AwaitExec)
  /\ WF_vars(Stat)
  /\ WF_vars(ReadFile)
  /\ WF_vars(Finally)
  /\ WF_vars(RmComplete)

LiveSpec == Spec /\ Fairness

(***************************************************************************)
(* Properties of executeFfmpeg.                                            *)
(***************************************************************************)
\* C1: whatever the order of 'close', 'error' and the timer, resolve/reject
\* is invoked at most once, the promise is settled exactly when one of them
\* was invoked, and the outcome is the one of an event that has happened.
C1_SettledOnce ==
  /\ settleCount <= 1
  /\ (settleCount = 1) <=> (outcome # "pending")
  /\ (settleCount = 1) <=> settled
  /\ outcome = "timeout" => timerFired
  /\ outcome \in {"resolved", "exit"} => closeEmitted
  /\ outcome = "spawn" => errorEmitted

\* the timer decided and 'close' arrived afterwards
C1_Witness ==
  /\ outcome = "timeout"
  /\ closeEmitted
  /\ settleCount = 1

\* C2: when the timer callback runs and neither 'close' nor 'error' has been
\* delivered, proc.kill is called with SIGKILL and with nothing else, and
\* the promise is rejected with the timeout failure.
C2_TimeoutKills ==
  [][ (~timerFired /\ timerFired' /\ ~closeEmitted /\ ~errorEmitted)
        => /\ signals' = Append(signals, "SIGKILL")
           /\ outcome' = "timeout"
           /\ \A i \in 1..Len(signals') : signals'[i] = "SIGKILL" ]_vars

C2_Witness ==
  /\ timerFired
  /\ outcome = "timeout"
  /\ signals = <<"SIGKILL">>
  /\ procState = "running"

\* C3: a call of executeFfmpeg eventually settles; when the tool never exits
\* by itself the call eventually fails with the timeout failure; and after a
\* timeout failure the process is eventually no longer running.
C3_EventuallySettles ==
  /\ (pc = "awaitExec") ~> (outcome # "pending")
  /\ (procState = "running" /\ hangs) ~> (outcome = "timeout")
  /\ (outcome = "timeout") ~> (procState # "running")

\* a tool that hangs was killed after the timeout
C3_Witness ==
  /\ hangs
  /\ outcome = "timeout"
  /\ procState = "exited"
  /\ exitCode = "null"

(***************************************************************************)
(* Properties of ffmpegHandler.                                            *)
(***************************************************************************)
\* C4: when the handler has returned a response and had created a workspace
\* directory, that directory does not exist any more.
C4_NoDirAtReturn ==
  (pc = "done" /\ mkdtempCount > 0) => fsDirs = {}

\* C5: a removal is issued only for a directory that was created, and when
\* the handler returns exactly one removal has been issued per directory
\* created: one after a successful mkdtemp, none before.
C5_ReleaseOncePerAcquire ==
  /\ rmIssued <= mkdtempCount
  /\ NoDir \notin rmPending
  /\ pc = "done" => rmIssued = mkdtempCount

\* a 413 response: the workspace was acquired and released once
C5_Witness ==
  /\ pc = "done"
  /\ response.status = 413
  /\ mkdtempCount = 1
  /\ rmIssued = 1

\* the handler has gone past the format check and the token check
PastValidation ==
  \/ pc \in {"mkdtemp", "writeFile", "spawn", "awaitExec", "stat", "readFile"}
  \/ mkdtempCount > 0
  \/ spawnCount > 0

\* C7: a validation failure is answered with 400 while nothing was spawned and
\* no workspace created; and whenever the handler goes on to create the
\* workspace or to spawn ffmpeg, the format is alphanumeric and no user token
\* matches the deny-list.
C7_ValidateBeforeSpawn ==
  /\ response.error \in {"Invalid output format", "Invalid arguments"}
       => /\ response.status = 400
          /\ spawnCount = 0
          /\ mkdtempCount = 0
          /\ fsDirs = {}
  /\ PastValidation
       => /\ \A i \in 1..Len(userArgs) : ~DANGEROUS_PATTERN(userArgs[i])
          /\ Len(outputFormat) > 0
          /\ \A i \in 1..Len(outputFormat) : IsAlnum(outputFormat[i])

\* ffmpeg was spawned for a request that carried two tokens
C7_Witness ==
  /\ spawnCount = 1
  /\ Len(userArgs) = 2

\* the format has been resolved and checked
FormatChecked ==
  /\ argsKind \in {"none", "query", "form"}
  /\ pc # "checkFormat"

ForbiddenFormatChars == {".", "/", " ", "\n"}

\* C10: the resolved outputFormat is rejected with 400 exactly when it does
\* not consist of one or more ASCII letters and digits; a value containing
\* '.', '/' or whitespace is rejected and neither the output path nor the
\* Content-Disposition file name is built from it.
C10_FormatWhitelist ==
  /\ FormatChecked =>
       /\ (response.status = 400 /\ response.error = "Invalid output format")
            <=> ~(/\ Len(outputFormat) > 0
                  /\ \A i \in 1..Len(outputFormat) : IsAlnum(outputFormat[i]))
       /\ (\E c \in ForbiddenFormatChars : ContainsChar(outputFormat, c))
            => /\ response.status = 400
               /\ outputPath = NoPath
               /\ headerName = <<>>
  /\ \A c \in ForbiddenFormatChars :
       /\ ~ContainsChar(SubSeq(outputPath.name, 8, Len(outputPath.name)), c)
       /\ ~ContainsChar(SubSeq(headerName, 8, Len(headerName)), c)

\* a format with a dot was rejected
C10_Witness ==
  /\ pc = "done"
  /\ outputFormat = <<"a", ".", "b">>
  /\ response.status = 400

\* C11: an artifact of 524288000 bytes or less is not refused for its size
\* and, once read, is returned with status 200; an artifact of 524288001
\* bytes or more is answered with 413 and is never read; the decision is
\* taken after fs.stat and before fs.readFile.
C11_SizeCeiling ==
  /\ statSize > 524288000
       => /\ response.status = 413
          /\ ~outputRead
          /\ pc \in {"finally", "done"}
  /\ (statSize >= 0 /\ statSize <= 524288000)
       => /\ response.status # 413
          /\ pc \in {"readFile", "finally", "done"}
          /\ outputRead => response.status = 200
          /\ response.status = 200 => outputRead
  /\ response.status = 413 => statSize > 524288000
  /\ outputRead => statSize >= 0

\* an artifact of exactly 500 MiB was returned
C11_Witness ==
  /\ pc = "done"
  /\ statSize = 524288000
  /\ outputRead
  /\ response.status = 200

\* C12: when 'close' decides the call, the call succeeds exactly when the
\* code is 0; for any other code, null included, it fails with the exit
\* failure, whose message carries the last 500 characters of stderr, or all
\* of stderr when it is shorter, and never more than 500.
C12_ExitCodeDecides ==
  outcome \in {"resolved", "exit"} =>
    /\ closeEmitted
    /\ outcome = "resolved" <=> exitCode = "0"
    /\ outcome = "exit" =>
         /\ errMsgLen <= 500
         /\ errMsgLen = IF stderrLen > 500 THEN 500 ELSE stderrLen

\* a tool ended by a signal from outside, with more than 500 characters of
\* stderr
C12_Witness ==
  /\ outcome = "exit"
  /\ exitCode = "null"
  /\ signals = <<>>
  /\ stderrLen = 501
  /\ errMsgLen = 500

C20_KillOnlyOnTimeout ==
  /\ Len(signals) <= 1
  /\ \A i \in 1..Len(signals) : signals[i] = "SIGKILL"
  /\ signals # <<>> => (outcome = "timeout" /\ timerFired)
  /\ outcome \in {"resolved", "exit", "spawn"}
       => /\ signals = <<>>
          /\ ~timerArmed
          /\ ~timerFired

\* 'close' decided the call and the handler has answered
C20_Witness ==
  /\ outcome = "exit"
  /\ closeEmitted
  /\ pc = "done"
  /\ signals = <<>>

\* C18: a failed removal of the workspace is logged, and the handler has
\* delivered the same response it delivers when the removal succeeds: the
\* response chosen before the removal was issued, never a missing one
C18_RemovalFailureLogged ==
  rmFailed =>
    /\ rmFailLogged
    /\ pc = "done"
    /\ response # NoResponse

(***************************************************************************)
(* validateArgs on its own: the inputs are token sequences built from      *)
(* fragments that hit, or barely miss, each alternative of the pattern.    *)
(***************************************************************************)
Fragments ==
  { <<Backtick>>, <<"$">>, <<"|">>, <<";">>, <<"&">>,
    <<".", ".", "/">>, <<".", ".", "\\">>, <<"f", "i", "l", "e", ":">>,
    <<"/", "d", "e", "v", "/">>, <<"/", "p", "r", "o", "c", "/">>,
    <<"/", "s", "y", "s", "/">>, <<"/", "e", "t", "c", "/">>,
    <<"F", "i", "L", "e", ":">>, <<"/", "E", "T", "C", "/">>,
    <<"/", "D", "e", "v", "/">>,
    <<>>, <<"-", "y">>, <<".", ".">>, <<".", "/">>, <<".", "\\">>,
    <<"f", "i", "l", "e">>, <<"i", "l", "e", ":">>, <<"/", "e", "t", "c">>,
    <<"e", "t", "c", "/">>, <<"/", "d", "e", "v">>, <<"/", "p", "r", "o", "c">>,
    <<"/", "s", "y", "s">>, <<"/", "/">>, <<":">>, <<"=">> }

ValTokens == Fragments \cup { <<"x">> \o f \o <<"/">> : f \in Fragments }

ValInit ==
  /\ valArgs \in SeqsUpTo(ValTokens, MaxValArgs)
  /\ valCalled = FALSE
  /\ valVerdict = [valid |-> TRUE, reason |-> <<>>]
  /\ pc = "idle"
  /\ ConcIdle
  /\ HandlerFresh
  /\ ArgvIdle
  /\ VidIdle

\* the call validateArgs(valArgs)
ValidateCall ==
  /\ ~valCalled
  /\ valCalled' = TRUE
  /\ valVerdict' = validateArgs(valArgs)
  /\ UNCHANGED <<valArgs, hvars, evars, fvars, hlog, flog, fxvars, rvars,
               cvars, avars>>

ValNext == ValidateCall

ValSpec == ValInit /\ [][ValNext]_vars

\* the patterns the claim lists
ListedPatterns ==
  { <<Backtick>>, <<"$">>, <<"|">>, <<";">>, <<"&">>, <<".", ".", "/">>,
    <<"f", "i", "l", "e", ":">>, <<"/", "e", "t", "c", "/">> }

\* the patterns of the deny-list
DenyPatterns ==
  ListedPatterns \cup
  { <<".", ".", "\\">>, <<"/", "d", "e", "v", "/">>,
    <<"/", "p", "r", "o", "c", "/">>, <<"/", "s", "y", "s", "/">> }

ToLower(s) ==
  [i \in 1..Len(s) |-> IF s[i] \in DOMAIN UpperToLower THEN UpperToLower[s[i]]
                                                        ELSE s[i]]

\* C9 as stated: the sequence is rejected exactly when a token contains one of
\* the eight listed patterns.
C9_Original ==
  valCalled =>
    (~valVerdict.valid <=>
       \E i \in 1..Len(valArgs) : \E pat \in ListedPatterns :
          Contains(valArgs[i], pat))

\* C9 as amended: the sequence is rejected exactly when a token contains,
\* letter case ignored, one of the twelve patterns of the deny-list; the
\* token reported is the first such token.
C9_DenyList ==
  valCalled =>
    LET Bad(i) == \E pat \in DenyPatterns : Contains(ToLower(valArgs[i]), pat)
    IN /\ ~valVerdict.valid <=> \E i \in 1..Len(valArgs) : Bad(i)
       /\ ~valVerdict.valid =>
            \E i \in 1..Len(valArgs) :
               /\ Bad(i)
               /\ \A j \in 1..(i - 1) : ~Bad(j)
               /\ valVerdict.reason = valArgs[i]

\* a sequence was rejected for an upper-case spelling in its second token
C9_Witness ==
  /\ valCalled
  /\ ~valVerdict.valid
  /\ Len(valArgs) = 2
  /\ valVerdict.reason = <<"/", "E", "T", "C", "/">>

(***************************************************************************)
(* extractFramesEverySecond, vid.ts:6-86 (variant "fps") and               *)
(* vid.ts:102-208 (variant "save", which takes saveDirectory).             *)
(***************************************************************************)
VidDir == "video-frames-1"

\* the decimal digits, in order
DigitChar == <<"0", "1", "2", "3", "4", "5", "6", "7", "8", "9">>

RECURSIVE DigitsOf(_)
DigitsOf(n) ==
  IF n < 10 THEN <<DigitChar[n + 1]>>
            ELSE DigitsOf(n \div 10) \o <<DigitChar[(n % 10) + 1]>>

\* the conversion %03d of the output pattern "frame_%03d.jpg", vid.ts:34
Pad3(n) ==
  LET ds == DigitsOf(n)
  IN IF Len(ds) >= 3 THEN ds ELSE [i \in 1..(3 - Len(ds)) |-> "0"] \o ds

\* the name of the file ffmpeg writes for frame number n
FrameName(n) ==
  <<"f", "r", "a", "m", "e", "_">> \o Pad3(n) \o <<".", "j", "p", "g">>

\* the frame numbers of the files a listing may hold
FrameNumbers == {0, 1, 2, 999, 1000}

\* entries that are not frames: the summary of vid.ts:184 and a stray image
OtherEntries ==
  { <<"f", "r", "a", "m", "e", "s", "-", "s", "u", "m", "m", "a", "r", "y",
      ".", "t", "x", "t">>,
    <<"f", "r", "a", "m", "e", "_", "0", "0", "1", ".", "p", "n", "g">> }

DirEntries == { FrameName(n) : n \in FrameNumbers } \cup OtherEntries

\* what fs.readdir may return: distinct entries in any order
Listings ==
  { l \in SeqsUpTo(DirEntries, MaxFrames) :
      \A i, j \in 1..Len(l) : i # j => l[i] # l[j] }

\* the sampling rates a caller may ask for
FpsInputs == {1, 3}

\* a filter that lets every entry through
IsJpgAny(name) == TRUE

\* file.endsWith(".jpg"), vid.ts:50
IsJpg(name) ==
  /\ Len(name) >= 4
  /\ SubSeq(name, Len(name) - 3, Len(name)) = <<".", "j", "p", "g">>

IsDigit(c) == c \in Digits

DigitValue(c) == CHOOSE d \in 0..9 : DigitChar[d + 1] = c

\* a.match(/\d+/)?.[0] || "0", vid.ts:52: the leftmost longest run of digits
FirstDigits(name) ==
  IF \E i \in 1..Len(name) : IsDigit(name[i])
  THEN LET start == CHOOSE i \in 1..Len(name) :
                      /\ IsDigit(name[i])
                      /\ \A j \in 1..(i - 1) : ~IsDigit(name[j])
           stop == CHOOSE k \in start..Len(name) :
                      /\ \A j \in start..k : IsDigit(name[j])
                      /\ (k = Len(name) \/ ~IsDigit(name[k + 1]))
       IN SubSeq(name, start, stop)
  ELSE <<"0">>

\* parseInt of a string of decimal digits
RECURSIVE ParseInt(_)
ParseInt(ds) ==
  IF Len(ds) = 0 THEN 0
  ELSE 10 * ParseInt(SubSeq(ds, 1, Len(ds) - 1)) + DigitValue(ds[Len(ds)])

FrameNumber(name) == ParseInt(FirstDigits(name))

\* a comparator that orders the digits as strings, character by character
CompareFramesLex(a, b) ==
  LET x == FirstDigits(a)
      y == FirstDigits(b)
      Less(u, v) ==
        \E i \in 1..Len(v) :
          /\ i - 1 <= Len(u)
          /\ \A j \in 1..(i - 1) : u[j] = v[j]
          /\ (i > Len(u) \/ DigitValue(u[i]) < DigitValue(v[i]))
  IN IF Less(x, y) THEN -1 ELSE IF Less(y, x) THEN 1 ELSE 0

\* the comparator (a, b) => numA - numB, vid.ts:51-55
CompareFrames(a, b) == FrameNumber(a) - FrameNumber(b)

\* Array.prototype.sort is stable: x goes behind every element that does
\* not compare greater than x
RECURSIVE InsertFrame(_, _)
InsertFrame(x, sorted) ==
  IF Len(sorted) = 0 THEN <<x>>
  ELSE LET l == sorted[Len(sorted)]
       IN IF CompareFrames(l, x) > 0
          THEN Append(InsertFrame(x, SubSeq(sorted, 1, Len(sorted) - 1)), l)
          ELSE Append(sorted, x)

RECURSIVE SortFrames(_)
SortFrames(seq) ==
  IF Len(seq) = 0 THEN <<>>
  ELSE InsertFrame(seq[Len(seq)], SortFrames(SubSeq(seq, 1, Len(seq) - 1)))

\* frameFiles.filter(...).sort(...), vid.ts:49-55 and vid.ts:145-151
SortedFrames(listing) == SortFrames(SelectSeq(listing, IsJpg))

\* a timestamp that counts positions from 1
TimestampOneBased(v, i, f) ==
  IF v = "fps" THEN [num |-> i + 1, den |-> f] ELSE [num |-> i + 1, den |-> 1]

\* the timestamp of the frame at position i: i / fps at vid.ts:63, i at
\* vid.ts:159; a quotient is kept as numerator and denominator
Timestamp(v, i, f) ==
  IF v = "fps" THEN [num |-> i, den |-> f] ELSE [num |-> i, den |-> 1]

\* the fields of a call that has not started
CallFresh ==
  /\ tempDir = NoDir
  /\ toolState = "none"
  /\ toolHangs = FALSE
  /\ nFiles = 0
  /\ framesRead = 0
  /\ vThrown = FALSE
  /\ vRmIssued = 0
  /\ vRmDone = 0
  /\ vReadAtRm = -1
  /\ vResult = "pending"
  /\ vRmFailed = FALSE
  /\ vRmFailLogged = FALSE
  /\ dirListing = <<>>
  /\ sortedFrames = <<>>
  /\ frames = <<>>
  /\ vSpawnCount = 0

\* a direct call of extractFramesEverySecond
VidInit ==
  /\ vPc = "mkdtemp"
  /\ variant \in {"fps", "save"}
  /\ saveDirectory \in BOOLEAN
  /\ (variant = "fps" => saveDirectory = FALSE)
  /\ fps \in FpsInputs
  /\ (variant = "save" => fps = 1)
  /\ CallFresh
  /\ rPc = "none"
  /\ routeResponse = NoResponse
  /\ pc = "idle"
  /\ ConcIdle
  /\ HandlerFresh
  /\ ArgvIdle
  /\ ValIdle

\* what no step of extractFramesEverySecond changes
VidFrame ==
  /\ UNCHANGED <<variant, saveDirectory, fps, rvars, cvars, avars>>
  /\ UNCHANGED <<pc, file, argsKind, userArgs, queryFormat, formFormat,
                 outputFormat, tmpDir, outputPath, statSize, outputRead,
                 response, headerName, mkdtempCount, rmIssued, rmPending,
                 spawnCount, evars, valvars, hlog>>

\* vid.ts:11 and vid.ts:106: mkdtemp is outside the try block
VMkdtemp ==
  /\ vPc = "mkdtemp"
  /\ \/ /\ tempDir' = VidDir
        /\ fsDirs' = fsDirs \cup {VidDir}
        /\ vPc' = "writeFile"
        /\ UNCHANGED vResult
     \/ /\ vResult' = "threw"
        /\ vPc' = "done"
        /\ UNCHANGED <<tempDir, fsDirs>>
  /\ UNCHANGED <<toolState, toolHangs, nFiles, framesRead, vThrown, vRmIssued,
                 vRmDone, vReadAtRm, flog, dirListing, sortedFrames, frames,
                 vSpawnCount>>
  /\ VidFrame

\* vid.ts:16 and vid.ts:111
VWriteVideo ==
  /\ vPc = "writeFile"
  /\ \/ vPc' = "mkdir" /\ UNCHANGED vThrown
     \/ vPc' = "finally" /\ vThrown' = TRUE
  /\ UNCHANGED <<tempDir, toolState, toolHangs, nFiles, framesRead, vRmIssued,
                 vRmDone, vReadAtRm, vResult, flog, dirListing, sortedFrames,
                 frames, vSpawnCount, fsDirs>>
  /\ VidFrame

\* vid.ts:17-46 and vid.ts:112-142: the directories are made, then the
\* promise executor starts the ffmpeg command
VMkdirAndRun ==
  /\ vPc = "mkdir"
  /\ \/ /\ vPc' = "ffmpeg"
        /\ toolState' = "running"
        /\ toolHangs' \in BOOLEAN
        /\ vSpawnCount' = vSpawnCount + 1
        /\ UNCHANGED vThrown
     \/ /\ vPc' = "finally"
        /\ vThrown' = TRUE
        /\ UNCHANGED <<toolState, toolHangs, vSpawnCount>>
  /\ UNCHANGED <<tempDir, nFiles, framesRead, vRmIssued, vRmDone, vReadAtRm,
                 vResult, flog, dirListing, sortedFrames, frames, fsDirs>>
  /\ VidFrame

\* the command ends by itself: fluent-ffmpeg emits 'end' or 'error'
ToolEnd ==
  /\ toolState = "running"
  /\ ~toolHangs
  /\ toolState' \in {"ended", "errored"}
  /\ UNCHANGED <<vPc, tempDir, toolHangs, nFiles, framesRead, vThrown,
                 vRmIssued, vRmDone, vReadAtRm, vResult, flog, dirListing,
                 sortedFrames, frames, vSpawnCount, fsDirs>>
  /\ VidFrame

\* the await of vid.ts:23-46 and vid.ts:123-142: 'end' resolves, 'error'
\* rejects; nothing else settles the promise
VAwaitTool ==
  /\ vPc = "ffmpeg"
  /\ toolState \in {"ended", "errored"}
  /\ IF toolState = "ended"
     THEN vPc' = "readdir" /\ UNCHANGED vThrown
     ELSE vPc' = "finally" /\ vThrown' = TRUE
  /\ UNCHANGED <<tempDir, toolState, toolHangs, nFiles, framesRead, vRmIssued,
                 vRmDone, vReadAtRm, vResult, flog, dirListing, sortedFrames,
                 frames, vSpawnCount, fsDirs>>
  /\ VidFrame

\* vid.ts:48-57 and vid.ts:144-153
VReaddir ==
  /\ vPc = "readdir"
  /\ \/ /\ \E l \in Listings :
             /\ dirListing' = l
             /\ sortedFrames' = SortedFrames(l)
             /\ nFiles' = Len(SortedFrames(l))
        /\ vPc' = "readFrames"
        /\ UNCHANGED vThrown
     \/ /\ vPc' = "finally"
        /\ vThrown' = TRUE
        /\ UNCHANGED <<nFiles, dirListing, sortedFrames>>
  /\ UNCHANGED <<tempDir, toolState, toolHangs, framesRead, vRmIssued, vRmDone,
                 vReadAtRm, vResult, flog, frames, vSpawnCount, fsDirs>>
  /\ VidFrame

\* one turn of the loop, vid.ts:59-76 and vid.ts:155-179
VReadFrame ==
  /\ vPc = "readFrames"
  /\ framesRead < nFiles
  /\ \/ /\ framesRead' = framesRead + 1
        /\ frames' = Append(frames,
                            [timestamp |-> Timestamp(variant, framesRead, fps),
                             file |-> sortedFrames[framesRead + 1]])
        /\ UNCHANGED <<vPc, vThrown>>
     \/ vPc' = "finally" /\ vThrown' = TRUE /\ UNCHANGED <<framesRead, frames>>
  /\ UNCHANGED <<tempDir, toolState, toolHangs, nFiles, vRmIssued, vRmDone,
                 vReadAtRm, vResult, flog, dirListing, sortedFrames,
                 vSpawnCount, fsDirs>>
  /\ VidFrame

\* the loop is over, vid.ts:78; with saveDirectory the summary file is
\* written first, vid.ts:181-198
VReturnFrames ==
  /\ vPc = "readFrames"
  /\ framesRead = nFiles
  /\ vPc' = "finally"
  /\ \/ UNCHANGED vThrown
     \/ saveDirectory /\ vThrown' = TRUE
  /\ UNCHANGED <<tempDir, toolState, toolHangs, nFiles, framesRead, vRmIssued,
                 vRmDone, vReadAtRm, vResult, flog, dirListing, sortedFrames,
                 frames, vSpawnCount, fsDirs>>
  /\ VidFrame

\* the condition of the finally block: none at vid.ts:79-85,
\* !saveDirectory at vid.ts:200
VidRemoves(v, save) == v = "fps" \/ ~save

\* the finally block is entered, vid.ts:79-81 and vid.ts:199-202
VFinally ==
  /\ vPc = "finally"
  /\ IF VidRemoves(variant, saveDirectory)
     THEN /\ vRmIssued' = vRmIssued + 1
          /\ vReadAtRm' = framesRead
          /\ vPc' = "rm"
          /\ UNCHANGED vResult
     ELSE /\ vPc' = "done"
          /\ vResult' = IF vThrown THEN "threw" ELSE "returned"
          /\ UNCHANGED <<vRmIssued, vReadAtRm>>
  /\ UNCHANGED <<tempDir, toolState, toolHangs, nFiles, framesRead, vThrown,
                 vRmDone, flog, dirListing, sortedFrames, frames, vSpawnCount,
                 fsDirs>>
  /\ VidFrame

\* whether the catch block around fs.rm writes a log line: console.error at
\* vid.ts:83 and vid.ts:204
VidCatchLogs == TRUE

\* await fs.rm(...) completes, vid.ts:81-84 and vid.ts:202-205: the directory
\* is gone, or the error is logged; then the call returns or rethrows
VRmDone ==
  /\ vPc = "rm"
  /\ vRmDone' = vRmDone + 1
  /\ \/ fsDirs' = fsDirs \ {tempDir} /\ UNCHANGED flog
     \/ /\ UNCHANGED fsDirs
        /\ vRmFailed' = TRUE
        /\ vRmFailLogged' = (vRmFailLogged \/ VidCatchLogs)
  /\ vPc' = "done"
  /\ vResult' = IF vThrown THEN "threw" ELSE "returned"
  /\ UNCHANGED <<tempDir, toolState, toolHangs, nFiles, framesRead, vThrown,
                 vRmIssued, vReadAtRm, dirListing, sortedFrames, frames,
                 vSpawnCount>>
  /\ VidFrame

VidNext ==
  \/ VMkdtemp
  \/ VWriteVideo
  \/ VMkdirAndRun
  \/ ToolEnd
  \/ VAwaitTool
  \/ VReaddir
  \/ VReadFrame
  \/ VReturnFrames
  \/ VFinally
  \/ VRmDone

VidSpec == VidInit /\ [][VidNext]_vars

VidFairness ==
  /\ WF_vars(VMkdtemp)
  /\ WF_vars(VWriteVideo)
  /\ WF_vars(VMkdirAndRun)
  /\ WF_vars(ToolEnd)
  /\ WF_vars(VAwaitTool)
  /\ WF_vars(VReaddir)
  /\ WF_vars(VReadFrame)
  /\ WF_vars(VReturnFrames)
  /\ WF_vars(VFinally)
  /\ WF_vars(VRmDone)

VidLiveSpec == VidSpec /\ VidFairness

\* C6: when a call that created its workspace returns or throws, one removal
\* of the workspace has been issued and has completed; and a removal issued
\* by a call that returns frames was issued after all frames were read.
C6_ReleasedBeforeReturn ==
  /\ (vPc = "done" /\ tempDir # NoDir) => (vRmIssued = 1 /\ vRmDone = 1)
  /\ (vRmIssued > 0 /\ ~vThrown) => vReadAtRm = nFiles

\* C8: every call of extractFramesEverySecond eventually returns or throws.
C8_EventuallyReturns == <>(vPc = "done")

(***************************************************************************)
(* Either operation, started once: a request to ffmpegHandler or a call of *)
(* extractFramesEverySecond.                                               *)
(***************************************************************************)
AllInit == Init \/ VidInit

AllNext == Next \/ VidNext

AllSpec == AllInit /\ [][AllNext]_vars

\* C19: within one request the tool is started at most once, the promise of
\* executeFfmpeg is decided at most once, and a timeout, a failed spawn or a
\* failing exit ends the request with that one failure: the handler answers
\* 500 with it, extractFramesEverySecond throws
C19_NoRetry ==
  /\ spawnCount <= 1
  /\ vSpawnCount <= 1
  /\ settleCount <= 1
  /\ (pc \in {"finally", "done"} /\ outcome \in {"timeout", "exit", "spawn"}
        => response = Error500(outcome) /\ spawnCount = 1)
  /\ (vPc \in {"finally", "rm", "done"} /\ toolState = "errored"
        => vThrown /\ vSpawnCount = 1)
  /\ (vPc = "done" /\ toolState = "errored" => vResult = "threw")

\* a request whose tool ran into the time limit was answered 500
C19_Witness ==
  /\ pc = "done"
  /\ outcome = "timeout"
  /\ spawnCount = 1
  /\ response = Error500("timeout")

(***************************************************************************)
(* Properties of the frames extractFramesEverySecond returns.              *)
(***************************************************************************)
\* the frame files of a listing, by the names the tool gives them
FrameFilesOf(listing) ==
  { listing[i] : i \in 1..Len(listing) } \cap
  { FrameName(n) : n \in FrameNumbers }

\* the number a frame file was given by the tool
NumberOf(name) == CHOOSE n \in FrameNumbers : FrameName(n) = name

\* C14: whatever the listing and its order, the files read are exactly the
\* frame files of the listing, each once, in strictly increasing order of
\* their numbers; what is not a .jpg file is left out; a call that returns
\* has read all of them, and files numbered 0..n-1 come out at positions
\* 0..n-1
C14_NumericOrder ==
  /\ { sortedFrames[i] : i \in 1..Len(sortedFrames) } = FrameFilesOf(dirListing)
  /\ Len(sortedFrames) = Cardinality(FrameFilesOf(dirListing))
  /\ \A i, j \in 1..Len(sortedFrames) :
       i < j => NumberOf(sortedFrames[i]) < NumberOf(sortedFrames[j])
  /\ Len(frames) <= Len(sortedFrames)
  /\ \A k \in 1..Len(frames) : frames[k].file = sortedFrames[k]
  /\ (vResult = "returned" => Len(frames) = Len(sortedFrames))
  /\ (/\ vResult = "returned"
      /\ FrameFilesOf(dirListing) = { FrameName(n) : n \in 0..(Len(frames) - 1) }
      => \A k \in 1..Len(frames) : NumberOf(frames[k].file) = k - 1)

\* frame_1000.jpg was listed before frame_999.jpg, a text file between
\* them, and the call returned frame 999 and then frame 1000
C14_Witness ==
  /\ vResult = "returned"
  /\ Len(dirListing) = 3
  /\ dirListing[1] = FrameName(1000)
  /\ dirListing[2] \in OtherEntries
  /\ dirListing[3] = FrameName(999)
  /\ Len(frames) = 2
  /\ frames[1].file = FrameName(999)
  /\ frames[2].file = FrameName(1000)

\* C15: the frame at 0-based position i of the result has timestamp i / fps,
\* that is timestamp * fps = i, whatever number its file name carries; the
\* variant with saveDirectory samples at 1 frame per second
C15_TimestampLaw ==
  \A k \in 1..Len(frames) :
    /\ frames[k].timestamp.den > 0
    /\ frames[k].timestamp.num * fps = (k - 1) * frames[k].timestamp.den

\* at 3 frames per second the fourth frame returned has timestamp 1, and
\* its file is number 1000
C15_Witness ==
  /\ vResult = "returned"
  /\ fps = 3
  /\ Len(frames) = 4
  /\ frames[4].timestamp = [num |-> 3, den |-> 3]
  /\ frames[4].file = FrameName(1000)

(***************************************************************************)
(* POST /extract-from-url, index.ts:11-83: the route downloads the video   *)
(* and awaits extractFramesEverySecond(buffer, fps, max_duration).         *)
(***************************************************************************)
RouteError(status, error) == [status |-> status, error |-> error]

\* c.json({success: true, ..., frames: [...]}), index.ts:67-75: one entry per
\* frame, carrying its timestamp
RouteSuccess(fs) ==
  [status |-> 200, success |-> TRUE,
   frames |-> [k \in 1..Len(fs) |-> [timestamp |-> fs[k].timestamp]]]

RouteInit ==
  /\ rPc = "request"
  /\ routeResponse = NoResponse
  /\ vPc = "idle"
  /\ variant = "fps"
  /\ saveDirectory = FALSE
  /\ fps = 3
  /\ CallFresh
  /\ pc = "idle"
  /\ ConcIdle
  /\ HandlerFresh
  /\ ArgvIdle
  /\ ValIdle

\* what the route leaves alone while it is not inside the call
RouteFrame ==
  /\ UNCHANGED <<variant, saveDirectory, tempDir, toolState, toolHangs,
                 nFiles, framesRead, vThrown, vRmIssued, vRmDone, vReadAtRm,
                 vResult, flog, dirListing, sortedFrames, frames, vSpawnCount>>
  /\ UNCHANGED <<hvars, evars, valvars, hlog, cvars, avars>>

\* index.ts:12-62: the body is parsed, the url checked, the video fetched,
\* and the call is started with fps = body.fps || 3
RouteRequest ==
  /\ rPc = "request"
  /\ \/ /\ routeResponse' =
             RouteError(400, "No URL provided. Please provide a video URL.")
        /\ rPc' = "done"
        /\ UNCHANGED <<vPc, fps>>
     \/ /\ routeResponse' = RouteError(500, "Failed to extract frames from URL")
        /\ rPc' = "done"
        /\ UNCHANGED <<vPc, fps>>
     \/ /\ fps' \in FpsInputs
        /\ vPc' = "mkdtemp"
        /\ rPc' = "extract"
        /\ UNCHANGED routeResponse
  /\ RouteFrame

\* index.ts:62-82: the call has returned its frames or thrown
RouteRespond ==
  /\ rPc = "extract"
  /\ vPc = "done"
  /\ routeResponse' =
       IF vResult = "returned"
       THEN RouteSuccess(frames)
       ELSE RouteError(500, "Failed to extract frames from URL")
  /\ rPc' = "done"
  /\ UNCHANGED <<vPc, fps>>
  /\ RouteFrame

RouteNext == RouteRequest \/ RouteRespond \/ VidNext

RouteSpec == RouteInit /\ [][RouteNext]_vars

\* C16: once the listing of a tool that ended successfully holds no frame
\* file, the call reads nothing and leaves the loop without throwing; a call
\* that did not throw returns its frames; and the route answers a call that
\* returned no frame with success and an empty list of frames
C16_EmptyIsSuccess ==
  [][/\ (/\ vPc = "readFrames"
         /\ toolState = "ended"
         /\ FrameFilesOf(dirListing) = {}
         => /\ vPc' \in {"readFrames", "finally"}
            /\ ~vThrown'
            /\ frames' = <<>>)
     /\ (vPc' = "done" /\ ~vThrown' /\ tempDir' # NoDir => vResult' = "returned")
     /\ (rPc' = "done" /\ vResult' = "returned" /\ frames' = <<>>
         => routeResponse' = [status |-> 200, success |-> TRUE, frames |-> <<>>])
    ]_vars

\* the tool ended successfully, the directory was empty, and the route
\* answered with success and no frames
C16_Witness ==
  /\ rPc = "done"
  /\ toolState = "ended"
  /\ vResult = "returned"
  /\ dirListing = <<>>
  /\ frames = <<>>
  /\ routeResponse.status = 200
  /\ routeResponse.success
  /\ routeResponse.frames = <<>>

(***************************************************************************)
(* Two requests side by side, each a transcode (ffmpegHandler) or a call   *)
(* of extractFramesEverySecond, seen through the directories and files     *)
(* they touch.  A directory is the sequence of its path components.        *)
(***************************************************************************)
\* the kinds of request: ffmpegHandler and the two variants of vid.ts
Kinds == {"transcode", "fps", "save"}

\* a directory a caller may pass as saveDirectory
SaveDirs == {<<"out">>}

\* the prefixes given to mkdtemp, ffmpeg.ts:146 and vid.ts:11
Prefix(kind) == IF kind = "transcode" THEN "ffmpeg-" ELSE "video-frames-"

\* the suffixes mkdtemp may append
Suffixes == {"a", "b"}

\* fs.mkdtemp creates a directory that did not exist
FreshNames(prefix, existing) ==
  { <<"tmp", prefix, x>> : x \in Suffixes } \ existing

\* path.join(tempDir, "frames"), vid.ts:13
FramesDir(ws) == ws \o <<"frames">>

\* finalFramesDir: framesDir at vid.ts:21, saveDirectory || framesDir at
\* vid.ts:116
FinalFramesDir(r) ==
  IF cSave[r] # NoSave THEN cSave[r] ELSE FramesDir(cDir[r])

\* where the tool writes: output.<format> in tmpDir (ffmpeg.ts:149), the
\* frames in finalFramesDir (vid.ts:34 and vid.ts:133)
OutputDir(r) ==
  IF cKind[r] = "transcode" THEN cDir[r] ELSE FinalFramesDir(r)

ToolFile(r) == IF cKind[r] = "transcode" THEN "output" ELSE "frame_001.jpg"

InputFile(r) == IF cKind[r] = "transcode" THEN "input" ELSE "video.mp4"

\* d is ws or lies below it
Under(d, ws) == Len(d) >= Len(ws) /\ SubSeq(d, 1, Len(ws)) = ws

\* writing a file replaces the file of that name in that directory
WriteFile(files, dir, name, r) ==
  { f \in files : ~(f.dir = dir /\ f.name = name) }
    \cup {[dir |-> dir, name |-> name, owner |-> r]}

ConcInit ==
  /\ cPc = [r \in Reqs |-> "mkdtemp"]
  /\ cKind \in [Reqs -> Kinds]
  /\ cSave \in [Reqs -> SaveDirs \cup {NoSave}]
  /\ \A r \in Reqs : cKind[r] # "save" => cSave[r] = NoSave
  /\ cDir = [r \in Reqs |-> <<>>]
  /\ cDirs = {}
  /\ cFiles = {}
  /\ cTouched = [r \in Reqs |-> {}]
  /\ cListed = [r \in Reqs |-> {}]
  /\ cRemoved = [r \in Reqs |-> {}]
  /\ pc = "idle"
  /\ HandlerFresh
  /\ ArgvIdle
  /\ ValIdle
  /\ VidIdle

ConcFrame ==
  UNCHANGED <<cKind, cSave, hvars, evars, valvars, fvars, hlog, flog, fxvars,
              rvars, avars>>

\* ffmpeg.ts:146, vid.ts:11, vid.ts:106
CMkdtemp(r) ==
  /\ cPc[r] = "mkdtemp"
  /\ \/ \E ws \in FreshNames(Prefix(cKind[r]), cDirs) :
          /\ cDir' = [cDir EXCEPT ![r] = ws]
          /\ cDirs' = cDirs \cup {ws}
          /\ cTouched' = [cTouched EXCEPT ![r] = @ \cup {ws}]
          /\ cPc' = [cPc EXCEPT ![r] = "write"]
     \/ /\ cPc' = [cPc EXCEPT ![r] = "done"]
        /\ UNCHANGED <<cDir, cDirs, cTouched>>
  /\ UNCHANGED <<cFiles, cListed, cRemoved>>
  /\ ConcFrame

\* the directories extractFramesEverySecond makes besides its workspace:
\* framesDir (vid.ts:17, vid.ts:112) and saveDirectory (vid.ts:117-118)
MadeDirs(r) ==
  IF cKind[r] = "transcode" THEN {}
  ELSE {FramesDir(cDir[r])} \cup (IF cSave[r] # NoSave THEN {cSave[r]} ELSE {})

\* ffmpeg.ts:156-157, vid.ts:16-17, vid.ts:111-120: the input is written
\* into the workspace
CWrite(r) ==
  /\ cPc[r] = "write"
  /\ \/ /\ cFiles' = WriteFile(cFiles, cDir[r], InputFile(r), r)
        /\ cDirs' = cDirs \cup MadeDirs(r)
        /\ cTouched' = [cTouched EXCEPT ![r] = @ \cup MadeDirs(r)]
        /\ cPc' = [cPc EXCEPT ![r] = "tool"]
     \/ /\ cPc' = [cPc EXCEPT ![r] = "release"]
        /\ UNCHANGED <<cFiles, cDirs, cTouched>>
  /\ UNCHANGED <<cDir, cListed, cRemoved>>
  /\ ConcFrame

\* the tool runs and writes its output, ffmpeg.ts:168-171, vid.ts:23-46,
\* vid.ts:123-142
CTool(r) ==
  /\ cPc[r] = "tool"
  /\ \/ /\ cFiles' = WriteFile(cFiles, OutputDir(r), ToolFile(r), r)
        /\ cTouched' = [cTouched EXCEPT ![r] = @ \cup {OutputDir(r)}]
        /\ cPc' = [cPc EXCEPT ![r] = "scan"]
     \/ /\ cPc' = [cPc EXCEPT ![r] = "release"]
        /\ UNCHANGED <<cFiles, cTouched>>
  /\ UNCHANGED <<cDir, cDirs, cListed, cRemoved>>
  /\ ConcFrame

\* the output is looked up: stat and readFile of outputPath
\* (ffmpeg.ts:174-182), readdir of finalFramesDir (vid.ts:48, vid.ts:144)
CScan(r) ==
  /\ cPc[r] = "scan"
  /\ cListed' = [cListed EXCEPT ![r] =
       IF cKind[r] = "transcode"
       THEN { f \in cFiles : f.dir = cDir[r] /\ f.name = ToolFile(r) }
       ELSE { f \in cFiles : f.dir = FinalFramesDir(r) }]
  /\ cTouched' = [cTouched EXCEPT ![r] = @ \cup {OutputDir(r)}]
  /\ cPc' = [cPc EXCEPT ![r] = "release"]
  /\ UNCHANGED <<cDir, cDirs, cFiles, cRemoved>>
  /\ ConcFrame

\* the finally blocks, ffmpeg.ts:201-206, vid.ts:79-85, vid.ts:199-207:
\* fs.rm(dir, {recursive: true, force: true}) removes the workspace and all
\* below it, or fails and removes nothing
CRelease(r) ==
  /\ cPc[r] = "release"
  /\ IF cKind[r] = "transcode" \/ VidRemoves(cKind[r], cSave[r] # NoSave)
     THEN \/ /\ cRemoved' = [cRemoved EXCEPT ![r] =
                   { f \in cFiles : Under(f.dir, cDir[r]) }]
             /\ cFiles' = { f \in cFiles : ~Under(f.dir, cDir[r]) }
             /\ cDirs' = { d \in cDirs : ~Under(d, cDir[r]) }
          \/ UNCHANGED <<cRemoved, cFiles, cDirs>>
     ELSE UNCHANGED <<cRemoved, cFiles, cDirs>>
  /\ cPc' = [cPc EXCEPT ![r] = "done"]
  /\ UNCHANGED <<cDir, cTouched, cListed>>
  /\ ConcFrame

ConcNext ==
  \E r \in Reqs : CMkdtemp(r) \/ CWrite(r) \/ CTool(r) \/ CScan(r) \/ CRelease(r)

ConcSpec == ConcInit /\ [][ConcNext]_vars

\* a request that holds a workspace and has not finished
Running(r) == cPc[r] \in {"write", "tool", "scan", "release"}

\* C17: two requests running at the same time have touched no directory in
\* common, and what a request's scan lists and what its removal deletes are
\* files the request wrote itself
C17_DisjointWorkspaces ==
  /\ \A r, q \in Reqs :
       r # q /\ Running(r) /\ Running(q) => cTouched[r] \cap cTouched[q] = {}
  /\ \A r \in Reqs : \A f \in cListed[r] \cup cRemoved[r] : f.owner = r

(***************************************************************************)
(* The command line of ffmpegHandler, ffmpeg.ts:130-168, on its own: the   *)
(* inputs are the name of the upload, the option tokens and the format.    *)
(***************************************************************************)
MaxArgvArgs == 3

\* the extensions of the filter, ffmpeg.ts:163
KnownExtensions ==
  { <<"m", "p", "4">>, <<"w", "a", "v">>, <<"m", "p", "3">>,
    <<"w", "e", "b", "m">>, <<"m", "k", "v">>, <<"a", "v", "i">>,
    <<"m", "o", "v">>, <<"f", "l", "v">>, <<"o", "g", "g">>,
    <<"f", "l", "a", "c">>, <<"m", "4", "a">>, <<"g", "i", "f">>,
    <<"p", "n", "g">>, <<"j", "p", "g">>, <<"j", "p", "e", "g">>,
    <<"w", "e", "b", "p">> }

\* the pattern of the filter without its flag i
IsOutputNameCaseSensitive(tok) ==
  /\ Len(tok) > 7
  /\ SubSeq(tok, 1, 7) = <<"o", "u", "t", "p", "u", "t", ".">>
  /\ SubSeq(tok, 8, Len(tok)) \in KnownExtensions

\* arg.match(/^output\.(mp4|...|webp)$/i), ffmpeg.ts:163
IsOutputName(tok) ==
  /\ Len(tok) > 7
  /\ FoldStr(SubSeq(tok, 1, 7)) = <<"o", "u", "t", "p", "u", "t", ".">>
  /\ FoldStr(SubSeq(tok, 8, Len(tok))) \in KnownExtensions

\* the predicate of userArgs.filter, ffmpeg.ts:161-164
KeepsArg(arg) == arg # <<"-", "y">> /\ ~IsOutputName(arg)

FilterArgs(args) == SelectSeq(args, KeepsArg)

\* path.extname on a POSIX host: trailing slashes are skipped, the last
\* segment is taken, and the extension runs from its last dot to its end; a
\* segment without a dot, one whose only dot is its first character, and the
\* segment ".." have none
ExtName(name) ==
  LET end == IF \E i \in 1..Len(name) : name[i] # "/"
             THEN CHOOSE i \in 1..Len(name) :
                    name[i] # "/" /\ \A j \in (i + 1)..Len(name) : name[j] = "/"
             ELSE 0
      startPart == IF \E i \in 1..end : name[i] = "/"
                   THEN 1 + CHOOSE i \in 1..end :
                              name[i] = "/" /\ \A j \in (i + 1)..end : name[j] # "/"
                   ELSE 1
      dots == { i \in startPart..end : name[i] = "." }
      startDot == CHOOSE i \in dots : \A j \in dots : j <= i
  IN IF end = 0 \/ dots = {} THEN <<>>
     ELSE IF startDot = startPart THEN <<>>
     ELSE IF /\ \A j \in startPart..(startDot - 1) : name[j] = "."
             /\ startDot = end
             /\ startDot = startPart + 1
          THEN <<>>
     ELSE SubSeq(name, startDot, end)

\* path.extname(file.name || 'input.bin') || '.bin', ffmpeg.ts:147
InputExt(name) ==
  LET e == ExtName(IF name = <<>> THEN <<"i", "n", "p", "u", "t", ".", "b", "i", "n">>
                                  ELSE name)
  IN IF e = <<>> THEN <<".", "b", "i", "n">> ELSE e

\* path.join(dir, name) for a name that needs no normalising
PathJoin(dir, name) == dir \o <<"/">> \o name

\* ['-y', '-i', inputPath, ...filteredArgs, outputPath], ffmpeg.ts:168
BuildCliArgs(inP, fa, outP) == <<<<"-", "y">>, <<"-", "i">>, inP>> \o fa \o <<outP>>

\* the directory mkdtemp returns
ArgvDir == <<"/", "t", "m", "p", "/", "f", "f", "m", "p", "e", "g", "-", "1">>

\* option tokens: the two kinds the filter removes, near misses of both, a
\* plain option and a token the validator rejects
ArgvTokens ==
  { <<"-", "y">>, <<"-", "Y">>, <<"-", "a", "n">>,
    <<"o", "u", "t", "p", "u", "t", ".", "m", "p", "4">>,
    <<"O", "U", "T", "P", "U", "T", ".", "M", "p", "4">>,
    <<"o", "u", "t", "p", "u", "t", ".", "x", "y", "z">>,
    <<"x", "o", "u", "t", "p", "u", "t", ".", "m", "p", "4">>,
    <<"a", ";", "b">> }

\* names of the upload
ArgvFileNames ==
  { <<>>, <<"v", ".", "m", "p", "4">>, <<"v">>, <<".", "v">>, <<".", ".">>,
    <<"a", ".", "b", "/", "c", ".", "d">>, <<"a", ".", "b", "/">>,
    <<"v", ".">> }

\* output formats, one of them refused by the whitelist
ArgvFormats ==
  { <<"m", "p", "4">>, <<"W", "e", "b", "M">>, <<".", ".", "/", "x">> }

ArgvInit ==
  /\ bPc = "check"
  /\ bFileName \in ArgvFileNames
  /\ bUserArgs \in SeqsUpTo(ArgvTokens, MaxArgvArgs)
  /\ bFormat \in ArgvFormats
  /\ bTmpDir = <<>>
  /\ inputPath = <<>>
  /\ bOutputPath = <<>>
  /\ filteredArgs = <<>>
  /\ cliArgs = <<>>
  /\ pc = "idle"
  /\ ConcIdle
  /\ HandlerFresh
  /\ ValIdle
  /\ VidIdle

ArgvFrame ==
  UNCHANGED <<bFileName, bUserArgs, bFormat, hvars, evars, valvars, fvars,
              hlog, flog, fxvars, rvars, cvars>>

\* ffmpeg.ts:131-143: the format whitelist, then validateArgs
ArgvCheck ==
  /\ bPc = "check"
  /\ bPc' = IF FormatRegex(bFormat) /\ validateArgs(bUserArgs).valid
            THEN "build" ELSE "rejected"
  /\ UNCHANGED <<bTmpDir, inputPath, bOutputPath, filteredArgs, cliArgs>>
  /\ ArgvFrame

\* ffmpeg.ts:146-149: mkdtemp, then the two paths
ArgvPaths ==
  /\ bPc = "build"
  /\ \/ /\ bTmpDir' = ArgvDir
        /\ inputPath' =
             PathJoin(ArgvDir, <<"i", "n", "p", "u", "t">> \o InputExt(bFileName))
        /\ bOutputPath' = PathJoin(ArgvDir, OutputName(bFormat))
        /\ bPc' = "write"
     \/ /\ bPc' = "failed"
        /\ UNCHANGED <<bTmpDir, inputPath, bOutputPath>>
  /\ UNCHANGED <<filteredArgs, cliArgs>>
  /\ ArgvFrame

\* ffmpeg.ts:156-168: the input is written, the tokens are filtered and the
\* command line is built
ArgvBuild ==
  /\ bPc = "write"
  /\ \/ /\ filteredArgs' = FilterArgs(bUserArgs)
        /\ cliArgs' = BuildCliArgs(inputPath, FilterArgs(bUserArgs), bOutputPath)
        /\ bPc' = "built"
     \/ /\ bPc' = "failed"
        /\ UNCHANGED <<filteredArgs, cliArgs>>
  /\ UNCHANGED <<bTmpDir, inputPath, bOutputPath>>
  /\ ArgvFrame

ArgvNext == ArgvCheck \/ ArgvPaths \/ ArgvBuild

ArgvSpec == ArgvInit /\ [][ArgvNext]_vars

\* a token the command line must not carry over: -y, or output.<extension>
\* in any letter case
Removable(tok) ==
  \/ tok = <<"-", "y">>
  \/ ToLower(tok) \in { <<"o", "u", "t", "p", "u", "t", ".">> \o e :
                          e \in KnownExtensions }

\* the positions of the tokens that stay
KeptIndexes(u) == { i \in 1..Len(u) : ~Removable(u[i]) }

\* the k-th position that stays
KeptIndex(u, k) ==
  CHOOSE i \in KeptIndexes(u) : Cardinality({ j \in KeptIndexes(u) : j < i }) = k - 1

\* p names an entry directly inside the directory ws
Inside(p, ws) ==
  /\ Len(p) > Len(ws) + 1
  /\ SubSeq(p, 1, Len(ws) + 1) = ws \o <<"/">>
  /\ LET rest == SubSeq(p, Len(ws) + 2, Len(p))
     IN ~ContainsChar(rest, "/") /\ rest # <<".">> /\ rest # <<".", ".">>

\* C21: the command line of an accepted request is -y, -i, inputPath, the
\* user's tokens, outputPath: both paths lie inside the request's directory,
\* outputPath is last, and between them stand, in their original order,
\* exactly the user's tokens that are neither -y nor output.<known extension>
C21_ArgvShape ==
  bPc = "built" =>
    /\ Len(cliArgs) = 4 + Cardinality(KeptIndexes(bUserArgs))
    /\ cliArgs[1] = <<"-", "y">>
    /\ cliArgs[2] = <<"-", "i">>
    /\ cliArgs[3] = inputPath
    /\ cliArgs[Len(cliArgs)] = bOutputPath
    /\ Inside(inputPath, bTmpDir)
    /\ Inside(bOutputPath, bTmpDir)
    /\ \A k \in 1..Cardinality(KeptIndexes(bUserArgs)) :
         cliArgs[3 + k] = bUserArgs[KeptIndex(bUserArgs, k)]

\* OUTPUT.Mp4 was removed, output.xyz and -an were kept in their order, and
\* the upload a.b/c.d gave the input the extension .d
C21_Witness ==
  /\ bPc = "built"
  /\ bFileName = <<"a", ".", "b", "/", "c", ".", "d">>
  /\ bFormat = <<"W", "e", "b", "M">>
  /\ bUserArgs = << <<"o", "u", "t", "p", "u", "t", ".", "x", "y", "z">>,
                    <<"O", "U", "T", "P", "U", "T", ".", "M", "p", "4">>,
                    <<"-", "a", "n">> >>
  /\ cliArgs = << <<"-", "y">>, <<"-", "i">>,
                  ArgvDir \o <<"/", "i", "n", "p", "u", "t", ".", "d">>,
                  <<"o", "u", "t", "p", "u", "t", ".", "x", "y", "z">>,
                  <<"-", "a", "n">>,
                  ArgvDir \o <<"/", "o", "u", "t", "p", "u", "t", ".", "W", "e", "b", "M">> >>

====
